---- MODULE Spec2Model ----
(***************************************************************************)
(* caastools.datasets: the sequential and the session-level dataset        *)
(* builders, as state machines over a relational store.                    *)
(*                                                                         *)
(* The store holds the tables the two builders read.  Interview,           *)
(* Utterance, PropertyValue, GlobalProperty and GlobalValue are fixed      *)
(* tables; CodingProperty (its display names, its rows), UtteranceCode and *)
(* GlobalRating are written by a writer process.  One caller makes one     *)
(* call at a time; sequential() issues two statements (the catalog lookup  *)
(* and the main query) and session_level() issues one.                     *)
(***************************************************************************)
EXTENDS Integers, Sequences, FiniteSets, TLC

VARIABLES db, call

vars == <<db, call>>

(***************************************************************************)
(* Bounds of the model.                                                    *)
(***************************************************************************)
\* UtteranceCode rows plus GlobalRating rows the store holds at most.
MaxFacts == 2
\* Writes the concurrent writer makes at most.
MaxWrites == 2

(***************************************************************************)
(* The sentinels.  TLC's integers are 32 bits wide, so the fifteen nines   *)
(* of the source are nine here; the string sentinel is the same digits, as *)
(* in the source, so that the numeric cast of the one gives the other.     *)
(***************************************************************************)
NUM_MSNG == -999999999
STR_MSNG == "-999999999"

(***************************************************************************)
(* Cells: SQL values and DataFrame values.  t is "num", "str", "null" (SQL *)
(* NULL, inside the query only) or "nan" (the DataFrame's NaN).            *)
(***************************************************************************)
Num(n) == [t |-> "num", n |-> n, s |-> ""]
Str(s) == [t |-> "str", n |-> 0, s |-> s]
Null == [t |-> "null", n |-> 0, s |-> ""]
NaN == [t |-> "nan", n |-> 0, s |-> ""]

Range(f) == {f[k] : k \in DOMAIN f}

(***************************************************************************)
(* The fixed tables.  S1 and S2 are two clients' sessions in coding system *)
(* 1; S3 is S2's session (same client, same session number) coded by       *)
(* another rater under coding system 2.  client_id is stored as text.      *)
(***************************************************************************)
Interview ==
    { [interview_id |-> 1, interview_name |-> "S1", client_id |-> "2",
       rater_id |-> 1, session_number |-> 1, coding_system |-> 1],
      [interview_id |-> 2, interview_name |-> "S2", client_id |-> "1",
       rater_id |-> 1, session_number |-> 1, coding_system |-> 1],
      [interview_id |-> 3, interview_name |-> "S3", client_id |-> "1",
       rater_id |-> 2, session_number |-> 1, coding_system |-> 2] }

Utterance ==
    { [utterance_id |-> 1, interview_id |-> 1, utt_line |-> 1, utt_enum |-> 1,
       utt_role |-> "T", utt_text |-> "hi", utt_start_time |-> 0, utt_end_time |-> 1],
      [utterance_id |-> 2, interview_id |-> 2, utt_line |-> 1, utt_enum |-> 1,
       utt_role |-> "T", utt_text |-> "hi", utt_start_time |-> 0, utt_end_time |-> 1],
      [utterance_id |-> 3, interview_id |-> 2, utt_line |-> 2, utt_enum |-> 2,
       utt_role |-> "C", utt_text |-> "ok", utt_start_time |-> 1, utt_end_time |-> 2],
      [utterance_id |-> 4, interview_id |-> 3, utt_line |-> 1, utt_enum |-> 1,
       utt_role |-> "T", utt_text |-> "hi", utt_start_time |-> 0, utt_end_time |-> 1] }

\* The CodingProperty rows as first stored: property 1 is numeric.
CodingPropertySeed ==
    { [coding_property_id |-> 1, coding_system |-> 1, cp_display_name |-> "A",
       cp_data_type |-> "numeric"],
      [coding_property_id |-> 2, coding_system |-> 1, cp_display_name |-> "B",
       cp_data_type |-> "text"],
      [coding_property_id |-> 3, coding_system |-> 2, cp_display_name |-> "C",
       cp_data_type |-> "text"] }

PropertyValue ==
    { [property_value_id |-> 1, coding_property_id |-> 1, pv_value |-> "1"],
      [property_value_id |-> 2, coding_property_id |-> 1, pv_value |-> "2"],
      [property_value_id |-> 3, coding_property_id |-> 2, pv_value |-> "X"],
      [property_value_id |-> 4, coding_property_id |-> 3, pv_value |-> "Y"] }

GlobalProperty ==
    { [global_property_id |-> 1, coding_system |-> 1, gp_name |-> "G1"],
      [global_property_id |-> 2, coding_system |-> 2, gp_name |-> "G2"] }

GlobalValue ==
    { [global_value_id |-> 1, global_property_id |-> 1, gv_value |-> "0"],
      [global_value_id |-> 2, global_property_id |-> 1, gv_value |-> "3"],
      [global_value_id |-> 3, global_property_id |-> 2, gv_value |-> "1"] }

\* The name a writer renames a property to.
NewDisplayName == "D"

(***************************************************************************)
(* The store: cp is the CodingProperty table, uc the UtteranceCode table   *)
(* as <<utterance_id, property_value_id>>, gr the GlobalRating table as    *)
(* <<interview_id, global_value_id>>.                                      *)
(***************************************************************************)
InitStore == [cp |-> CodingPropertySeed, uc |-> {}, gr |-> {}]

CodingProperty(S) == S.cp
UtteranceCode(S) == S.uc
GlobalRating(S) == S.gr

(***************************************************************************)
(* SQL's CAST of a text to INT or FLOAT: the number the text spells, 0 for *)
(* a text that spells none.                                                *)
(***************************************************************************)
NumberSpelled(s) ==
    CASE s = "0" -> 0
      [] s = "1" -> 1
      [] s = "2" -> 2
      [] s = "3" -> 3
      [] s = STR_MSNG -> NUM_MSNG
      [] OTHER -> 0

Cast(v) ==
    CASE v.t = "null" -> Null
      [] v.t = "str" -> Num(NumberSpelled(v.s))
      [] OTHER -> v

\* client_column with client_as_numeric at its default, True.
client_column(i) == Cast(Str(i.client_id))

(***************************************************************************)
(* Orderings.  KeyLeq is ORDER BY's comparison of two keys of integers;    *)
(* OrderBy(S) is every sequence of the rows of S in ascending key order: SQL*)
(* leaves the order of rows with equal keys to the engine.                 *)
(***************************************************************************)
KeyLess(a, b) ==
    \E k \in DOMAIN a : a[k] < b[k] /\ \A j \in 1..(k - 1) : a[j] = b[j]

KeyLeq(a, b) == a = b \/ KeyLess(a, b)

RECURSIVE OrderBy(_)
OrderBy(S) ==
    IF S = {} THEN {<<>>}
    ELSE LET least == {r \in S : \A q \in S : KeyLeq(r.key, q.key)}
         IN  UNION {{<<r.row>> \o t : t \in OrderBy(S \ {r})} : r \in least}

RECURSIVE SortedIds(_)
SortedIds(S) ==
    IF S = {} THEN <<>>
    ELSE LET m == CHOOSE x \in S : \A y \in S : x <= y
         IN  <<m>> \o SortedIds(S \ {m})

(***************************************************************************)
(* sequential()                                                            *)
(***************************************************************************)
\* sorted(set(included_properties))
DedupSorted(props) == SortedIds(Range(props))

\* The catalog lookup: id -> (display name, data type) of the ids that exist.
CatalogLookup(S, included) ==
    [id \in {p.coding_property_id : p \in CodingProperty(S)} \cap Range(included) |->
        LET p == CHOOSE q \in CodingProperty(S) : q.coding_property_id = id
        IN  [cp_display_name |-> p.cp_display_name, cp_data_type |-> p.cp_data_type]]

\* The loop over the ids with every id kept: no id is skipped.
KeepAll(included, cp_dict) == included

\* The loop over the ids: an id the catalog does not hold is skipped.
ResolveLoop(included, cp_dict) ==
    SelectSeq(included, LAMBDA id : id \in DOMAIN cp_dict)

\* display_names, in the loop's order.
DisplayNames(resolved, cp_dict) ==
    [k \in DOMAIN resolved |->
        IF resolved[k] \in DOMAIN cp_dict
        THEN cp_dict[resolved[k]].cp_display_name ELSE "None"]

\* `name in cast_columns`: some kept property of that name is numeric.
InCastColumns(name, resolved, cp_dict) ==
    \E k \in DOMAIN resolved :
        /\ resolved[k] \in DOMAIN cp_dict
        /\ cp_dict[resolved[k]].cp_display_name = name
        /\ cp_dict[resolved[k]].cp_data_type = "numeric"

\* property_query: UtteranceCode JOIN PropertyValue JOIN CodingProperty.
property_query(S) ==
    { [utterance_id |-> t[1][1], pv_value |-> t[2].pv_value,
       coding_property_id |-> t[2].coding_property_id,
       cp_data_type |-> t[3].cp_data_type] :
        t \in { x \in UtteranceCode(S) \X PropertyValue \X CodingProperty(S) :
                    /\ x[2].property_value_id = x[1][2]
                    /\ x[3].coding_property_id = x[2].coding_property_id } }

\* The property's CTE: property_query narrowed to the property.
PropertyCte(S, prop_pk) ==
    {r \in property_query(S) : r.coding_property_id = prop_pk}

\* An inner join: a left row with no match is dropped.
InnerJoin(matches) == matches

\* JOIN.LEFT_OUTER: a left row with no match is kept, with NULLs.
LeftOuterJoin(matches) == IF matches = {} THEN {Null} ELSE matches

\* The values the property's CTE joins to the utterance.
DataField(S, prop_pk, u) ==
    LeftOuterJoin({Str(r.pv_value) : r \in
                      {q \in PropertyCte(S, prop_pk) : q.utterance_id = u.utterance_id}})

\* Case(None, ((data_field.is_null(), STR_MSNG),), data_field)
PropertyCase(data_field) ==
    IF data_field.t = "null" THEN Str(STR_MSNG) ELSE data_field

\* The property's column of the select list.
PropertyColumn(data_field, cast) ==
    IF cast THEN Cast(PropertyCase(data_field)) ELSE PropertyCase(data_field)

SqlValues == {Null} \cup {Str(pv.pv_value) : pv \in PropertyValue}

\* The main query's rows, each with its ORDER BY key.
BasicQuery(S, interviews, resolved, cp_dict) ==
    LET names == DisplayNames(resolved, cp_dict)
        joined == { x \in Interview \X Utterance :
                      /\ x[2].interview_id = x[1].interview_id
                      /\ x[1].interview_name \in interviews }
        Fields(u) == { f \in [DOMAIN resolved -> SqlValues] :
                         \A k \in DOMAIN resolved : f[k] \in DataField(S, resolved[k], u) }
        Row(i, u, f) ==
            <<Str(i.interview_name), Num(i.rater_id), client_column(i),
              Num(i.session_number), Num(u.utt_line), Num(u.utt_enum), Str(u.utt_role)>>
            \o [k \in DOMAIN resolved |->
                   PropertyColumn(f[k], InCastColumns(names[k], resolved, cp_dict))]
            \o <<Str(u.utt_text), Num(u.utt_start_time), Num(u.utt_end_time)>>
    IN  UNION { { [key |-> <<client_column(x[1]).n, x[1].session_number, x[2].utt_enum>>,
                   row |-> Row(x[1], x[2], f)] : f \in Fields(x[2]) } : x \in joined }

\* The cursor's column names.
SequentialColumns(names) ==
    <<"interview_name", "rater_id", "client_id", "session_number", "utt_line",
      "utt_enum", "utt_role">> \o names \o <<"utt_text", "utt_start_time", "utt_end_time">>

\* A replace that knows the string sentinel only.
ReplaceStrOnly(cell) ==
    IF cell = Str(STR_MSNG) THEN Str("") ELSE cell

\* DataFrame.replace([NUM_MSNG, STR_MSNG], [NaN, '']) on one cell.
Replace(cell) ==
    IF cell = Num(NUM_MSNG) THEN NaN
    ELSE IF cell = Str(STR_MSNG) THEN Str("")
    ELSE cell

\* The DataFrame of the rows.
DataFrame(columns, rows) ==
    [err |-> "", columns |-> columns,
     data |-> [k \in DOMAIN rows |-> [j \in DOMAIN rows[k] |-> Replace(rows[k][j])]]]

\* The tables the main query can return on store S.
SequentialQuery(S, interviews, resolved, cp_dict) ==
    { DataFrame(SequentialColumns(DisplayNames(resolved, cp_dict)), rows) :
        rows \in OrderBy(BasicQuery(S, interviews, resolved, cp_dict)) }

\* The tables sequential() can return when both statements read store S.
Sequential(S, interviews, props) ==
    LET included == DedupSorted(props)
        cp_dict == CatalogLookup(S, included)
    IN  SequentialQuery(S, interviews, ResolveLoop(included, cp_dict), cp_dict)

(***************************************************************************)
(* session_level()                                                         *)
(***************************************************************************)
\* The strings the model sorts, in their collation order.
Lexicon ==
    <<"A_1", "A_2", "B_X", "C_Y", "D_1", "D_2", "D_X", "D_Y", "G1", "G2",
      "S1", "S2", "S3">>

StrRank(s) == CHOOSE k \in DOMAIN Lexicon : Lexicon[k] = s

\* A filter argument: given is FALSE for None.
NoFilter == [given |-> FALSE, ids |-> {}]
Filter(ids) == [given |-> TRUE, ids |-> ids]

\* The where clause of the count stream: p1 & p2, p1, p2 or none.
predicate(i, cp, included_interviews, included_properties) ==
    LET p1 == i.interview_name \in included_interviews.ids
        p2 == cp.coding_property_id \in included_properties.ids
    IN  IF included_interviews.given /\ included_properties.given THEN p1 /\ p2
        ELSE IF included_interviews.given THEN p1
        ELSE IF included_properties.given THEN p2
        ELSE TRUE

\* The where clause of the rating stream: p1 & p3, p1, p3 or none.
global_predicate(i, gp, included_interviews, included_globals) ==
    LET p1 == i.interview_name \in included_interviews.ids
        p3 == gp.global_property_id \in included_globals.ids
    IN  IF included_interviews.given /\ included_globals.given THEN p1 /\ p3
        ELSE IF included_interviews.given THEN p1
        ELSE IF included_globals.given THEN p3
        ELSE TRUE

\* global_cte: GlobalRating JOIN GlobalValue LEFT JOIN GlobalProperty.
global_cte(S) ==
    { [interview_id |-> t[1][1], gv_value |-> Cast(Str(t[2].gv_value)),
       global_property_id |-> t[2].global_property_id] :
        t \in { x \in GlobalRating(S) \X GlobalValue : x[2].global_value_id = x[1][2] } }

\* A rating stream whose missing rating reads 0.
GlobalValuesZero(S, i, gp) ==
    LET m == { r.gv_value : r \in { q \in global_cte(S) :
                   /\ q.interview_id = i.interview_id
                   /\ q.global_property_id = gp.global_property_id } }
    IN  IF m = {} THEN {Num(0)} ELSE m

\* The ratings the LEFT OUTER join of global_cte gives an (interview, global).
GlobalValues(S, i, gp) ==
    LeftOuterJoin({ r.gv_value : r \in { q \in global_cte(S) :
                       /\ q.interview_id = i.interview_id
                       /\ q.global_property_id = gp.global_property_id } })

\* One row of the long table, with its ORDER BY key and the join row it is of.
LongRow(i, var_name, var_value, src) ==
    [key |-> <<client_column(i).n, i.session_number, i.rater_id, StrRank(var_name)>>,
     row |-> [interview_name |-> i.interview_name, client_id |-> client_column(i).n,
              rater_id |-> i.rater_id, session_number |-> i.session_number,
              var_name |-> var_name, var_value |-> var_value],
     src |-> src]

\* full_global_query: Interview JOIN CodingSystem JOIN GlobalProperty LEFT JOIN global_cte.
full_global_query(S, included_interviews, included_globals) ==
    UNION { { LongRow(x[1], x[2].gp_name, v, <<"global", x[2].global_property_id, v>>) :
                v \in GlobalValues(S, x[1], x[2]) } :
            x \in { y \in Interview \X GlobalProperty :
                      /\ y[2].coding_system = y[1].coding_system
                      /\ global_predicate(y[1], y[2], included_interviews, included_globals) } }

\* inner_query: the UtteranceCode rows of the interview's utterances with that value.
inner_query(S, interview_id, pvid) ==
    Cardinality({ c \in UtteranceCode(S) :
                    /\ c[2] = pvid
                    /\ \E u \in Utterance :
                          u.utterance_id = c[1] /\ u.interview_id = interview_id })

\* Case(None, ((cte.c.cnt.is_null(), 0),), cte.c.cnt): a group with no row counts 0.
var_count(S, i, pv) == Num(inner_query(S, i.interview_id, pv.property_value_id))

\* var_column
var_column(cp, pv) == cp.cp_display_name \o "_" \o pv.pv_value

\* full_query before the union: Interview JOIN CodingSystem JOIN CodingProperty
\* JOIN PropertyValue LEFT JOIN cte.
count_query(S, included_interviews, included_properties) ==
    { LongRow(x[1], var_column(x[2], x[3]), var_count(S, x[1], x[3]),
              <<"count", x[3].property_value_id, Null>>) :
        x \in { y \in Interview \X CodingProperty(S) \X PropertyValue :
                  /\ y[2].coding_system = y[1].coding_system
                  /\ y[3].coding_property_id = y[2].coding_property_id
                  /\ predicate(y[1], y[2], included_interviews, included_properties) } }

\* The long table: the union of the two streams in the ORDER BY's order.  The
\* pivot's result is the same for every order of rows with equal keys.
LongTable(S, included_interviews, included_properties, included_globals) ==
    CHOOSE rows \in OrderBy(count_query(S, included_interviews, included_properties)
                            \cup full_global_query(S, included_interviews, included_globals)) :
        TRUE

\* unstack's order of the index: by the index levels, the interview name first.
IndexKey(r) == <<StrRank(r.interview_name), r.client_id, r.rater_id, r.session_number>>

SessionColumns(var_names) ==
    <<"interview_name", "client_id", "rater_id", "session_number">> \o var_names

\* from_records, set_index, unstack('var_name'), .loc[:, 'var_value'], reset_index.
Pivot(long) ==
    LET Ix(r) == [interview_name |-> r.interview_name, client_id |-> r.client_id,
                  rater_id |-> r.rater_id, session_number |-> r.session_number]
        index == OrderBy({ [key |-> IndexKey(r), row |-> Ix(r)] : r \in Range(long) })
        rows == CHOOSE s \in index : TRUE
        var_names == CHOOSE s \in OrderBy({ [key |-> <<StrRank(r.var_name)>>, row |-> r.var_name] :
                                         r \in Range(long) }) : TRUE
        Cell(ix, v) ==
            LET hit == { k \in DOMAIN long : Ix(long[k]) = ix /\ long[k].var_name = v }
            IN  IF hit = {} \/ long[CHOOSE k \in hit : TRUE].var_value.t = "null"
                THEN NaN ELSE long[CHOOSE k \in hit : TRUE].var_value
    IN  IF long = <<>>
        THEN [err |-> "KeyError", columns |-> <<>>, data |-> <<>>]
        ELSE IF \E j, k \in DOMAIN long :
                   j # k /\ Ix(long[j]) = Ix(long[k]) /\ long[j].var_name = long[k].var_name
        THEN [err |-> "ValueError", columns |-> <<>>, data |-> <<>>]
        ELSE [err |-> "", columns |-> SessionColumns(var_names),
              data |-> [k \in DOMAIN rows |->
                           <<Str(rows[k].interview_name), Num(rows[k].client_id),
                             Num(rows[k].rater_id), Num(rows[k].session_number)>>
                           \o [j \in DOMAIN var_names |-> Cell(rows[k], var_names[j])]]]

\* The table session_level() returns on store S.
SessionLevelTable(S, included_interviews, included_properties, included_globals) ==
    Pivot(LongTable(S, included_interviews, included_properties, included_globals))

(***************************************************************************)
(* The caller and the writer.                                              *)
(***************************************************************************)
NoTable == [err |-> "", columns |-> <<>>, data |-> <<>>]

\* No call in progress.  snap is the store as of the call's first read and live
\* the store as it was when the call's last statement ran; prev holds the
\* previous call's result when the call in progress repeats it.
IdleCall ==
    [fn |-> "none", pc |-> "idle", included_interviews |-> NoFilter, props |-> <<>>,
     included_properties |-> NoFilter, included_globals |-> NoFilter,
     snap |-> InitStore, live |-> InitStore, cp_dict |-> <<>>, resolved |-> <<>>,
     out |-> NoTable, prev |-> <<>>]

Names == {i.interview_name : i \in Interview}

\* The arguments the caller draws from.  Property 9 does not exist.
InterviewArgs == SUBSET Names
PropertyArgs == {<<>>, <<1>>, <<2>>, <<1, 2>>, <<2, 1, 1>>, <<9>>, <<1, 9, 2>>}
SlInterviewArgs == {NoFilter} \cup {Filter(n) : n \in {{}, {"S1", "S2"}, {"S3"}, Names}}
SlPropertyArgs == {NoFilter, Filter({}), Filter({1, 9}), Filter({3})}
SlGlobalArgs == {NoFilter, Filter({}), Filter({1}), Filter({2})}

\* The arguments of the calls that run beside the writer.
ConcurrentPropertyArgs == {<<1>>, <<1, 2>>}

\* What a statement inside database.atomic() reads: the store as of the
\* transaction's first read.
TransactionSnapshot == call.snap

\* The main query issued outside the transaction: it reads the store as it is.
QueryOutsideTransaction == db

\* The store the main query reads: it runs inside the with block.
QueryStore == TransactionSnapshot

Init == db = InitStore /\ call = IdleCall

\* sequential(*included_interviews, included_properties=props) is entered.
SeqCall(interviews, props) ==
    /\ call.pc = "idle"
    /\ call' = [IdleCall EXCEPT !.fn = "sequential", !.pc = "catalog",
                                !.included_interviews = Filter(interviews),
                                !.props = props]
    /\ UNCHANGED db

\* The same call made again, the result of the first kept for comparison.
SeqRepeat ==
    /\ call.fn = "sequential" /\ call.pc = "done" /\ call.prev = <<>>
    /\ call' = [IdleCall EXCEPT !.fn = "sequential", !.pc = "catalog",
                                !.included_interviews = call.included_interviews,
                                !.props = call.props,
                                !.prev = <<[out |-> call.out, snap |-> call.snap]>>]
    /\ UNCHANGED db

\* The transaction's first statement, the catalog lookup, and the loop over the ids.
SeqCatalog ==
    /\ call.fn = "sequential" /\ call.pc = "catalog"
    /\ LET included == DedupSorted(call.props)
           cp_dict == CatalogLookup(db, included)
       IN  call' = [call EXCEPT !.pc = "query", !.snap = db, !.cp_dict = cp_dict,
                                !.resolved = ResolveLoop(included, cp_dict)]
    /\ UNCHANGED db

\* The main query and the DataFrame; the transaction ends.
SeqQuery ==
    /\ call.fn = "sequential" /\ call.pc = "query"
    /\ \E out \in SequentialQuery(QueryStore, call.included_interviews.ids,
                                  call.resolved, call.cp_dict) :
          call' = [call EXCEPT !.pc = "done", !.live = db, !.out = out]
    /\ UNCHANGED db

\* session_level(): one statement, then the pivot.
SessionLevel(interviews, properties, globals) ==
    /\ call.pc = "idle"
    /\ call' = [IdleCall EXCEPT !.fn = "session_level", !.pc = "done",
                                !.included_interviews = interviews,
                                !.included_properties = properties,
                                !.included_globals = globals,
                                !.snap = db, !.live = db,
                                !.out = SessionLevelTable(db, interviews, properties, globals)]
    /\ UNCHANGED db

\* The call returns its table.
Return ==
    /\ call.pc = "done"
    /\ call' = IdleCall
    /\ UNCHANGED db

\* The writer: a code is applied to an utterance.
AddCode(u, pv) ==
    /\ <<u, pv>> \notin db.uc
    /\ db' = [db EXCEPT !.uc = @ \cup {<<u, pv>>}]
    /\ UNCHANGED call

\* The writer: an interview is given a rating.
AddRating(i, gv) ==
    /\ <<i, gv>> \notin db.gr
    /\ db' = [db EXCEPT !.gr = @ \cup {<<i, gv>>}]
    /\ UNCHANGED call

\* The writer: a property's display name is changed to a name no property has.
RenameProperty(p) ==
    /\ p \in db.cp
    /\ \A q \in db.cp : q.cp_display_name # NewDisplayName
    /\ db' = [db EXCEPT !.cp = (@ \ {p}) \cup {[p EXCEPT !.cp_display_name = NewDisplayName]}]
    /\ UNCHANGED call

\* The writer: a property is deleted.
DeleteProperty(p) ==
    /\ p \in db.cp
    /\ db' = [db EXCEPT !.cp = @ \ {p}]
    /\ UNCHANGED call

Facts == Cardinality(db.uc) + Cardinality(db.gr)

\* Rows added, and properties renamed or deleted.
Writes == Facts + Cardinality(CodingPropertySeed \ db.cp)

UtteranceIds == {u.utterance_id : u \in Utterance}
PropertyValueIds == {pv.property_value_id : pv \in PropertyValue}
InterviewIds == {i.interview_id : i \in Interview}
GlobalValueIds == {gv.global_value_id : gv \in GlobalValue}

\* The writer writes between the calls.
BetweenCalls == call.pc = "idle" /\ Facts < MaxFacts

CodeBetweenCalls(u, pv) == BetweenCalls /\ AddCode(u, pv)

RateBetweenCalls(i, gv) == BetweenCalls /\ AddRating(i, gv)

(***************************************************************************)
(* sequential() called, and called again, on a store written between the   *)
(* calls.                                                                  *)
(***************************************************************************)
NextSequential ==
    \/ \E u \in UtteranceIds, pv \in PropertyValueIds : CodeBetweenCalls(u, pv)
    \/ \E interviews \in InterviewArgs, props \in PropertyArgs : SeqCall(interviews, props)
    \/ SeqRepeat
    \/ SeqCatalog
    \/ SeqQuery
    \/ Return

SpecSequential == Init /\ [][NextSequential]_vars

(***************************************************************************)
(* session_level() called on a store written between the calls.            *)
(***************************************************************************)
NextSessionLevel ==
    \/ \E u \in UtteranceIds, pv \in PropertyValueIds : CodeBetweenCalls(u, pv)
    \/ \E i \in InterviewIds, gv \in GlobalValueIds : RateBetweenCalls(i, gv)
    \/ \E interviews \in SlInterviewArgs, properties \in SlPropertyArgs,
          globals \in SlGlobalArgs : SessionLevel(interviews, properties, globals)
    \/ Return

SpecSessionLevel == Init /\ [][NextSessionLevel]_vars

(***************************************************************************)
(* The calls beside a writer that writes at any time, also between the two *)
(* statements of sequential().                                             *)
(***************************************************************************)
CodeConcurrently(u, pv) == Writes < MaxWrites /\ AddCode(u, pv)

RenameConcurrently(p) == Writes < MaxWrites /\ RenameProperty(p)

DeleteConcurrently(p) == Writes < MaxWrites /\ DeleteProperty(p)

NextConcurrent ==
    \/ \E u \in UtteranceIds, pv \in PropertyValueIds : CodeConcurrently(u, pv)
    \/ \E p \in db.cp : RenameConcurrently(p)
    \/ \E p \in db.cp : DeleteConcurrently(p)
    \/ \E props \in ConcurrentPropertyArgs : SeqCall(Names, props)
    \/ SeqCatalog
    \/ SeqQuery
    \/ SessionLevel(NoFilter, NoFilter, NoFilter)
    \/ Return

SpecConcurrent == Init /\ [][NextConcurrent]_vars

(***************************************************************************)
(* Reading a returned table.                                               *)
(***************************************************************************)
Done(fn) == call.fn = fn /\ call.pc = "done"

HasColumn(T, name) == \E k \in DOMAIN T.columns : T.columns[k] = name

ColIndex(T, name) == CHOOSE k \in DOMAIN T.columns : T.columns[k] = name

\* The cell of row k in the column of that name.
CellAt(T, k, name) == T.data[k][ColIndex(T, name)]

\* Whether the interview passes the call's interview filter.
InterviewInScope(i) ==
    ~call.included_interviews.given \/ i.interview_name \in call.included_interviews.ids

\* The utterances of the interviews the call names.
UtterancesInScope ==
    { u \in Utterance : \E i \in Interview :
          i.interview_id = u.interview_id /\ InterviewInScope(i) }

\* The rows of the sequential table that are utterance u's.
RowsOf(T, u) ==
    { k \in DOMAIN T.data :
        /\ CellAt(T, k, "utt_enum") = Num(u.utt_enum)
        /\ \E i \in Interview : /\ i.interview_id = u.interview_id
                                /\ CellAt(T, k, "interview_name") = Str(i.interview_name) }

\* The sequential table's property columns: those between utt_role and utt_text.
PropertyColumns(T) == SubSeq(T.columns, 8, Len(T.columns) - 3)

\* The ids of the call's props that the store of the call holds a property for.
ResolvedIds == Range(call.props) \cap {p.coding_property_id : p \in call.snap.cp}

PropertyOfId(S, id) == CHOOSE p \in S.cp : p.coding_property_id = id

\* Whether store S records a value of property id for utterance u.
HasValue(S, u, id) ==
    \E c \in S.uc, pv \in PropertyValue :
        /\ c[1] = u.utterance_id /\ c[2] = pv.property_value_id
        /\ pv.coding_property_id = id

\* The row of the session-level table that is the interview's, if any.
SessionRows(T, i) ==
    { k \in DOMAIN T.data : CellAt(T, k, "interview_name") = Str(i.interview_name) }

SessionTableReturned == Done("session_level") /\ call.out.err = ""

(***************************************************************************)
(* C1.  The sequential table has as many rows as the requested interviews  *)
(* have utterances, whatever properties are requested and however many     *)
(* UtteranceCode rows an utterance has under a requested property.         *)
(***************************************************************************)
C1_RowPerUtterance ==
    Done("sequential") => Len(call.out.data) = Cardinality(UtterancesInScope)

(***************************************************************************)
(* C2.  In the session-level table, for every interview in scope and every *)
(* property value of a requested property, the column <display name>_<value>*)
(* exists and the interview's cell in it is the number of UtteranceCode    *)
(* rows with that value in the interview's utterances: 0, never a missing  *)
(* cell, when there are none.                                              *)
(***************************************************************************)
C2_CountCellsNeverMissing ==
    SessionTableReturned =>
        \A i \in Interview, cp \in call.snap.cp, pv \in PropertyValue :
            ( /\ InterviewInScope(i)
              /\ pv.coding_property_id = cp.coding_property_id
              /\ (call.included_properties.given
                    => cp.coding_property_id \in call.included_properties.ids) )
            => /\ HasColumn(call.out, var_column(cp, pv))
               /\ SessionRows(call.out, i) # {}
               /\ \A k \in SessionRows(call.out, i) :
                     CellAt(call.out, k, var_column(cp, pv))
                        = Num(inner_query(call.snap, i.interview_id, pv.property_value_id))

(***************************************************************************)
(* C3.  The rows of the session-level table are in ascending order of      *)
(* (client_id, session_number, rater_id).                                  *)
(***************************************************************************)
C3_SessionRowsInKeyOrder ==
    SessionTableReturned =>
        \A k \in 1..(Len(call.out.data) - 1) :
            KeyLeq(<<CellAt(call.out, k, "client_id").n,
                     CellAt(call.out, k, "session_number").n,
                     CellAt(call.out, k, "rater_id").n>>,
                   <<CellAt(call.out, k + 1, "client_id").n,
                     CellAt(call.out, k + 1, "session_number").n,
                     CellAt(call.out, k + 1, "rater_id").n>>)

(***************************************************************************)
(* C4.  The rows of the sequential table are in ascending order of         *)
(* (client_id, session_number, utt_enum), and the call made again with the *)
(* same arguments on the unchanged store returns the rows in the same      *)
(* order.                                                                  *)
(***************************************************************************)
C4_SequentialOrderRepeats ==
    Done("sequential") =>
        /\ \A k \in 1..(Len(call.out.data) - 1) :
              KeyLeq(<<CellAt(call.out, k, "client_id").n,
                       CellAt(call.out, k, "session_number").n,
                       CellAt(call.out, k, "utt_enum").n>>,
                     <<CellAt(call.out, k + 1, "client_id").n,
                       CellAt(call.out, k + 1, "session_number").n,
                       CellAt(call.out, k + 1, "utt_enum").n>>)
        /\ (call.prev # <<>> /\ call.prev[1].snap = call.snap)
              => call.out = call.prev[1].out

\* Whether store S holds a rating of the interview under the global property.
Rated(S, i, gp) ==
    \E r \in S.gr, gv \in GlobalValue :
        /\ r[1] = i.interview_id /\ r[2] = gv.global_value_id
        /\ gv.global_property_id = gp.global_property_id

\* A global property in scope: the call's filter admits it and it is a global
\* property of the coding system of an interview in scope.
GlobalInScope(gp) ==
    /\ call.included_globals.given => gp.global_property_id \in call.included_globals.ids
    /\ \E j \in Interview : InterviewInScope(j) /\ j.coding_system = gp.coding_system

C6_ColumnsOfResolvedIds ==
    Done("sequential") =>
        /\ call.out.err = ""
        /\ Len(PropertyColumns(call.out)) = Cardinality(ResolvedIds)
        /\ Range(PropertyColumns(call.out))
              = {PropertyOfId(call.snap, id).cp_display_name : id \in ResolvedIds}

\* A call returned whose ids held an unknown id beside two that resolve.
C6_Witness ==
    /\ Done("sequential")
    /\ Cardinality(ResolvedIds) = 2
    /\ \E id \in Range(call.props) : id \notin ResolvedIds

\* The universal missing-value marker of the DataFrame: NaN, or the empty text.
IsMissingMarker(cell) == cell = NaN \/ cell = Str("")

(***************************************************************************)
(* C7.  No cell of the sequential table is the sentinel, as a number or as *)
(* a string; the cell of an utterance with no recorded value under a       *)
(* requested property is the missing-value marker, for a numeric property  *)
(* and for a text property.                                                *)
(***************************************************************************)
C7_NoSentinelInTable ==
    Done("sequential") =>
        /\ \A k \in DOMAIN call.out.data : \A j \in DOMAIN call.out.data[k] :
              /\ call.out.data[k][j] # Num(NUM_MSNG)
              /\ call.out.data[k][j] # Str(STR_MSNG)
        /\ \A u \in UtterancesInScope, id \in ResolvedIds :
              ~HasValue(call.snap, u, id) =>
                  /\ RowsOf(call.out, u) # {}
                  /\ \A k \in RowsOf(call.out, u) :
                        IsMissingMarker(
                            CellAt(call.out, k, PropertyOfId(call.snap, id).cp_display_name))

\* A table returned with an utterance that has no value under a numeric
\* property and no value under a text property, both requested.
C7_Witness ==
    /\ Done("sequential")
    /\ \E u \in UtterancesInScope, a, b \in ResolvedIds :
          /\ PropertyOfId(call.snap, a).cp_data_type = "numeric"
          /\ PropertyOfId(call.snap, b).cp_data_type = "text"
          /\ ~HasValue(call.snap, u, a) /\ ~HasValue(call.snap, u, b)

\* The values the table holds for utterance u in the column of that name.
ColumnValues(T, name, u) == {CellAt(T, k, name) : k \in RowsOf(T, u)}

(***************************************************************************)
(* C8.  For every property of the call and every utterance in scope, the   *)
(* values of the property's column are those sequential() returns for the  *)
(* same interviews, on the same store, asked for that property alone.      *)
(***************************************************************************)
C8_ColumnIndependent ==
    Done("sequential") =>
        \A id \in ResolvedIds :
            \A T \in Sequential(call.snap, call.included_interviews.ids, <<id>>) :
                \A u \in UtterancesInScope :
                    ColumnValues(call.out, PropertyOfId(call.snap, id).cp_display_name, u)
                      = ColumnValues(T, PropertyOfId(call.snap, id).cp_display_name, u)

\* A table returned for two properties, with an utterance that has a value
\* under the one and none under the other.
C8_Witness ==
    /\ Done("sequential")
    /\ \E u \in UtterancesInScope, a, b \in ResolvedIds :
          a # b /\ HasValue(call.snap, u, a) /\ ~HasValue(call.snap, u, b)

C10_EmptyFilterEmptyTable ==
    /\ ( /\ Done("sequential")
         /\ call.included_interviews.ids = {} \/ call.props = <<>> )
       => /\ call.out.err = ""
          /\ call.out.data = <<>>
          /\ call.props = <<>> => PropertyColumns(call.out) = <<>>
    /\ ( /\ Done("session_level")
         /\ \/ call.included_interviews.given /\ call.included_interviews.ids = {}
            \/ call.included_properties.given /\ call.included_properties.ids = {} )
       => /\ call.out.err = ""
          /\ call.out.data = <<>>

====
